---- MODULE Spec2Model ----
(***************************************************************************)
(* Model of mne/beamformer/_dics.py: _apply_dics and dics_epochs.          *)
(*                                                                         *)
(* Numbers are exact: a value is a pair <<n, d>>.  With d > 0 it is the    *)
(* rational n/d in lowest terms; d = 0 encodes the IEEE specials the       *)
(* in-place division of line 149 can produce: <<0,0>> is NaN, <<1,0>> is   *)
(* +inf and <<-1,0>> is -inf.  Square roots (line 161) are carried as the  *)
(* squared value.  Matrices are records [nr, nc, e] with e[i][j] the entry *)
(* of row i and column j (1-based); the shape is kept explicitly so that   *)
(* matrices with zero rows or columns still have one.  The data CSD is     *)
(* drawn from real symmetric positive semi-definite matrices, on which     *)
(* conj() and real_if_close() leave every entry as it is.                  *)
(***************************************************************************)
EXTENDS Integers, Sequences, FiniteSets, TLC

(***************************************************************************)
(* Bounds of the model.                                                    *)
(***************************************************************************)
MaxEpochs == 2
MaxSources == 2
MaxEig == 5

(***************************************************************************)
(* Exact arithmetic.                                                       *)
(***************************************************************************)
Abs(x) == IF x < 0 THEN -x ELSE x

Sign(x) == IF x > 0 THEN 1 ELSE IF x < 0 THEN -1 ELSE 0

RECURSIVE GCD(_, _)
GCD(a, b) == IF b = 0 THEN a ELSE GCD(b, a % b)

Norm(n, d) ==
  IF d = 0 THEN <<Sign(n), 0>>
  ELSE LET g == GCD(Abs(n), Abs(d))
           s == Sign(d)
       IN <<(s * n) \div g, (s * d) \div g>>

Rat(n, d) == Norm(n, d)
Zero == <<0, 1>>
One == <<1, 1>>
NaN == <<0, 0>>

IsFinite(a) == a[2] > 0
IsNaN(a) == a = NaN

Add(a, b) ==
  IF a[2] = 0 /\ b[2] = 0 THEN (IF a[1] = b[1] THEN a ELSE NaN)
  ELSE IF a[2] = 0 THEN a
  ELSE IF b[2] = 0 THEN b
  ELSE Norm(a[1] * b[2] + b[1] * a[2], a[2] * b[2])

Neg(a) == <<-a[1], a[2]>>
Sub(a, b) == Add(a, Neg(b))
Mul(a, b) == Norm(a[1] * b[1], a[2] * b[2])
Inv(a) == IF a[1] < 0 THEN Norm(-a[2], -a[1]) ELSE Norm(a[2], a[1])
Div(a, b) == Mul(a, Inv(b))
RAbs(a) == <<Abs(a[1]), a[2]>>

\* a > b and a >= b as IEEE compares them: false when either side is NaN
Gt(a, b) ==
  /\ ~IsNaN(a) /\ ~IsNaN(b)
  /\ IF a[2] = 0 /\ b[2] = 0 THEN a[1] > b[1]
     ELSE IF a[2] = 0 THEN a[1] > 0
     ELSE IF b[2] = 0 THEN b[1] < 0
     ELSE a[1] * b[2] > b[1] * a[2]

Geq(a, b) == ~IsNaN(a) /\ ~IsNaN(b) /\ (a = b \/ Gt(a, b))

RECURSIVE SumSeq(_)
SumSeq(s) == IF s = << >> THEN Zero ELSE Add(Head(s), SumSeq(Tail(s)))

RECURSIVE SqrtFrom(_, _)
SqrtFrom(n, x) == IF x * x >= n THEN x ELSE SqrtFrom(n, x + 1)

ISqrt(n) == SqrtFrom(n, 0)
IsSquare(n) == n >= 0 /\ ISqrt(n) * ISqrt(n) = n

\* the rational square root, defined on rationals whose root is rational
HasRSqrt(a) == IsFinite(a) /\ IsSquare(a[1]) /\ IsSquare(a[2])
RSqrt(a) == <<ISqrt(a[1]), ISqrt(a[2])>>

(***************************************************************************)
(* Matrices.                                                               *)
(***************************************************************************)
\* (appending the empty sequence makes TLC compute the entries once)
Mat(nr, nc, F(_, _)) ==
  [nr |-> nr, nc |-> nc,
   e |-> [i \in 1..nr |-> [j \in 1..nc |-> F(i, j)] \o << >>] \o << >>]

\* a matrix of integers given as a sequence of rows with nc columns
IntMat(rows, nc) ==
  Mat(Len(rows), nc, LAMBDA i, j : Rat(rows[i][j], 1))

Eye(n) == Mat(n, n, LAMBDA i, j : IF i = j THEN One ELSE Zero)

Transpose(A) == Mat(A.nc, A.nr, LAMBDA i, j : A.e[j][i])

\* mutant: the product is required to be square
CanDot_square(A, B) == A.nc = B.nr /\ A.nr = B.nc

CanDot(A, B) == A.nc = B.nr

Dot(A, B) ==
  Mat(A.nr, B.nc,
      LAMBDA i, j : SumSeq([l \in 1..A.nc |-> Mul(A.e[i][l], B.e[l][j])]))

Scale(c, A) == Mat(A.nr, A.nc, LAMBDA i, j : Mul(c, A.e[i][j]))

MatSub(A, B) == Mat(A.nr, A.nc, LAMBDA i, j : Sub(A.e[i][j], B.e[i][j]))

MatAdd(A, B) == Mat(A.nr, A.nc, LAMBDA i, j : Add(A.e[i][j], B.e[i][j]))

ZeroMat(nr, nc) == Mat(nr, nc, LAMBDA i, j : Zero)

Trace(A) == SumSeq([i \in 1..A.nr |-> A.e[i][i]])

\* rows lo..hi of A (a[lo-1:hi]) and columns lo..hi of A (a[:, lo-1:hi])
Rows(A, lo, hi) == Mat(hi - lo + 1, A.nc, LAMBDA i, j : A.e[lo + i - 1][j])
Cols(A, lo, hi) == Mat(A.nr, hi - lo + 1, LAMBDA i, j : A.e[i][lo + j - 1])

\* a[:, sel] for a sequence sel of 0-based column indices
TakeCols(A, sel) == Mat(A.nr, Len(sel), LAMBDA i, j : A.e[i][sel[j] + 1])

IsSymmetric(A) ==
  A.nr = A.nc /\ \A i, j \in 1..A.nr : A.e[i][j] = A.e[j][i]

(***************************************************************************)
(* scipy.linalg.pinv(a, cond) on a real symmetric matrix.  pinv solves     *)
(* a x = I with LAPACK gelss, which treats every singular value            *)
(* s <= cond * s_max as zero.  For a symmetric matrix the singular values  *)
(* are the absolute eigenvalues, and the pseudo-inverse is the sum of      *)
(* P(lam) / lam over the eigenvalues lam that are kept, P(lam) being the   *)
(* spectral projector of lam.  The matrices of the model have at most two  *)
(* sensor channels, so a 3 x 3 coupling matrix Ck has rank at most 2 and   *)
(* its spectrum is 0 with the two roots of a quadratic.                    *)
(***************************************************************************)
Minor2(A, i, j) ==
  Sub(Mul(A.e[i][i], A.e[j][j]), Mul(A.e[i][j], A.e[j][i]))

SumMinors(A) ==
  SumSeq([p \in 1..(A.nr * A.nr) |->
            LET i == ((p - 1) \div A.nr) + 1
                j == ((p - 1) % A.nr) + 1
            IN IF i < j THEN Minor2(A, i, j) ELSE Zero])

Det(A) ==
  IF A.nr = 1 THEN A.e[1][1]
  ELSE IF A.nr = 2 THEN Minor2(A, 1, 2)
  ELSE Add(Sub(Mul(A.e[1][1], Sub(Mul(A.e[2][2], A.e[3][3]),
                                  Mul(A.e[2][3], A.e[3][2]))),
               Mul(A.e[1][2], Sub(Mul(A.e[2][1], A.e[3][3]),
                                  Mul(A.e[2][3], A.e[3][1])))),
           Mul(A.e[1][3], Sub(Mul(A.e[2][1], A.e[3][2]),
                              Mul(A.e[2][2], A.e[3][1]))))

Discriminant(A) ==
  Sub(Mul(Trace(A), Trace(A)), Mul(Rat(4, 1), SumMinors(A)))

\* the matrices whose spectrum the exact arithmetic can represent
RationalSpectrum(A) ==
  /\ IsSymmetric(A)
  /\ A.nr \in 1..3
  /\ A.nr = 3 => Det(A) = Zero
  /\ A.nr > 1 => HasRSqrt(Discriminant(A))

\* the roots (t + r) / 2 and (t - r) / 2 of the quadratic of trace t whose
\* discriminant has the root r
RootHi(t, r) == Div(Add(t, r), Rat(2, 1))
RootLo(t, r) == Div(Sub(t, r), Rat(2, 1))
Roots(n, t, r) ==
  IF n = 2 THEN {RootHi(t, r), RootLo(t, r)}
  ELSE {RootHi(t, r), RootLo(t, r), Zero}

Eigs(A) ==
  IF A.nr = 1 THEN {A.e[1][1]}
  ELSE Roots(A.nr, Trace(A), RSqrt(Discriminant(A)))

MaxAbs(S) == CHOOSE m \in {RAbs(x) : x \in S} : \A x \in S : Geq(m, RAbs(x))

RECURSIVE Projector(_, _, _)
Projector(A, lam, others) ==
  IF others = {} THEN Eye(A.nr)
  ELSE LET mu == CHOOSE m \in others : TRUE
       IN Dot(Scale(Inv(Sub(lam, mu)), MatSub(A, Scale(mu, Eye(A.nr)))),
              Projector(A, lam, others \ {mu}))

RECURSIVE SumMats(_, _)
SumMats(n, S) ==
  IF S = {} THEN ZeroMat(n, n)
  ELSE LET M == CHOOSE m \in S : TRUE
       IN MatAdd(M, SumMats(n, S \ {M}))

\* the eigenvalues of E that the cutoff cond * s_max keeps
Kept(E, cond) == {lam \in E : Gt(RAbs(lam), Mul(cond, MaxAbs(E)))}

\* the pseudo-inverse of A from its eigenvalues E
SpectralInverse(A, E, cond) ==
  SumMats(A.nr, {Scale(Inv(lam), Projector(A, lam, E \ {lam})) :
                   lam \in Kept(E, cond)})

pinv(A, cond) == SpectralInverse(A, Eigs(A), cond)

\* no singular value sits exactly on the cutoff, where rounding would decide
NoneOnCutoff(E, cond) ==
  \A lam \in E : lam = Zero \/ RAbs(lam) # Mul(cond, MaxAbs(E))

OffCutoff(A, cond) == NoneOnCutoff(Eigs(A), cond)

IsPSD(A) == \A lam \in Eigs(A) : Geq(lam, Zero)

(***************************************************************************)
(* Collaborators of _apply_dics that live outside _dics.py.                *)
(***************************************************************************)
RECURSIVE SortedSeq(_)
SortedSeq(S) ==
  IF S = {} THEN << >>
  ELSE LET m == CHOOSE x \in S : \A y \in S : x <= y
       IN <<m>> \o SortedSeq(S \ {m})

\* pick_types(info, meg, eeg, exclude='bads'): the 1-based channel indices
pick_types(info, meg, eeg) ==
  SortedSeq({c \in 1..Len(info.chs) :
               /\ c \notin info.bads
               /\ \/ meg /\ info.chs[c] = "meg"
                  \/ eeg /\ info.chs[c] = "eeg"})

\* pick_channels_forward(forward, include): the rows of the gain of the
\* picked channels, the sources untouched
pick_channels_forward(forward, picks) ==
  [forward EXCEPT !.sol =
     Mat(Len(picks), forward.sol.nc, LAMBDA i, j : forward.sol.e[picks[i]][j])]

\* make_projector(projs, ch_names): the identity without projection
\* vectors, and I - v v^T / (v^T v) for one vector v seen on the picked
\* channels (a vector that vanishes there is skipped)
ProjectOut(v) ==
  IF v.nr = 0 \/ Dot(Transpose(v), v).e[1][1] = Zero THEN Eye(v.nr)
  ELSE MatSub(Eye(v.nr),
              Scale(Inv(Dot(Transpose(v), v).e[1][1]), Dot(v, Transpose(v))))

make_projector(projs, picks) ==
  IF projs = << >> THEN Eye(Len(picks))
  ELSE ProjectOut(Mat(Len(picks), 1, LAMBDA i, j : Rat(projs[1][picks[i]], 1)))

\* _get_vertno(src): the vertex numbers of every source location
get_vertno(forward) == [s \in 1..forward.nsource |-> s - 1]

(***************************************************************************)
(* The pieces of _apply_dics.                                              *)
(***************************************************************************)
FIFFV_MNE_FREE_ORI == "free"

\* line 65: the caller's pick_ori is overwritten
OverridePickOri(requested) == "None"

\* lines 69-80: the message of the ValueError raised, or "ok"
CheckPickOri(pick_ori, is_free_ori, forward) ==
  IF pick_ori \in {"normal", "max-power"} /\ ~is_free_ori
    THEN "free orientation required"
  ELSE IF pick_ori = "normal" /\ ~forward.surf_ori
    THEN "surface coordinates required"
  ELSE IF pick_ori = "normal" /\ forward.src_type # "surf"
    THEN "surface source space required"
  ELSE "ok"

\* mutant: the selection is not scaled by 3
ExpandSrcSel_unscaled(src_sel) ==
  [p \in 1..(3 * Len(src_sel)) |->
     src_sel[((p - 1) \div 3) + 1] + ((p - 1) % 3)]

\* lines 94-96: 3 * src_sel, np.c_[s, s + 1, s + 2], ravel() in row order
ExpandSrcSel(src_sel) ==
  [p \in 1..(3 * Len(src_sel)) |->
     3 * src_sel[((p - 1) \div 3) + 1] + ((p - 1) % 3)]

\* lines 90-101: the gain columns of the label, or the whole gain
RestrictedGain(forward, label, is_free_ori) ==
  IF label.given
    THEN TakeCols(forward.sol,
                  IF is_free_ori THEN ExpandSrcSel(label.src_sel)
                  ELSE label.src_sel)
    ELSE forward.sol

\* lines 82-105: channel picks, restriction to channels and label, SSPs
PickedGain(forward, info, label, is_free_ori, picks) ==
  Dot(make_projector(info.projs, picks),
      RestrictedGain(pick_channels_forward(forward, picks), label, is_free_ori))

ProjectedGain(forward, info, label, is_free_ori) ==
  PickedGain(forward, info, label, is_free_ori, pick_types(info, TRUE, FALSE))

\* lines 91 and 100
Vertno(forward, label) ==
  IF label.given THEN label.vertno ELSE get_vertno(forward)

\* line 114
OrientDim(is_free_ori) == IF is_free_ori THEN 3 ELSE 1

\* line 115
SourceCount(G, n_orient) == G.nc \div n_orient

\* lines 118-120: the blocks of source k (0-based) and their coupling
BlockW(W, k, n_orient) == Rows(W, n_orient * k + 1, n_orient * k + n_orient)
BlockG(G, k, n_orient) == Cols(G, n_orient * k + 1, n_orient * k + n_orient)
Coupling(W, G, k, n_orient) ==
  Dot(BlockW(W, k, n_orient), BlockG(G, k, n_orient))

(***************************************************************************)
(* Lines 125-142, the 'max-power' branch.                                  *)
(***************************************************************************)
\* argmax() and argmin(): the 0-based index of the first extreme value
ArgMax(v) ==
  CHOOSE i \in 0..(Len(v) - 1) :
    /\ \A j \in 0..(Len(v) - 1) : Geq(v[i + 1], v[j + 1])
    /\ \A j \in 0..(i - 1) : Gt(v[i + 1], v[j + 1])

ArgMin(v) ==
  CHOOSE i \in 0..(Len(v) - 1) :
    /\ \A j \in 0..(Len(v) - 1) : Geq(v[j + 1], v[i + 1])
    /\ \A j \in 0..(i - 1) : Gt(v[j + 1], v[i + 1])

\* mutant: "or" in place of "and"
MiddleStep_or(eig_vals, i, idx) ==
  IF i # ArgMax(eig_vals) \/ i # ArgMin(eig_vals) THEN i ELSE idx

\* lines 133-134: one pass of the loop body, idx the value of idx_middle
MiddleStep(eig_vals, i, idx) ==
  IF i # ArgMax(eig_vals) /\ i # ArgMin(eig_vals) THEN i ELSE idx

\* lines 132-134: the loop from pass i on
RECURSIVE MiddleLoop(_, _, _)
MiddleLoop(eig_vals, i, idx) ==
  IF i = 3 THEN idx
  ELSE MiddleLoop(eig_vals, i + 1, MiddleStep(eig_vals, i, idx))

RECURSIVE Insert(_, _)
Insert(x, s) ==
  IF s = << >> THEN <<x>>
  ELSE IF Geq(Head(s), x) THEN <<x>> \o s
  ELSE <<Head(s)>> \o Insert(x, Tail(s))

\* the eigenvalues eigh() returns for a 3 x 3 matrix of rank at most 2:
\* the two roots of the quadratic and 0, in ascending order
Ascending(t, r) == Insert(RootHi(t, r), Insert(RootLo(t, r), <<Zero>>))

EighVals(A) == Ascending(Trace(A), RSqrt(Discriminant(A)))

\* a unit eigenvector of lam as a 1 x n row: a normalised column of the
\* spectral projector (LAPACK is free in its sign, and in its direction
\* within the eigenspace of a repeated eigenvalue)
FirstOnDiagonal(P) ==
  CHOOSE j \in 1..P.nr :
    P.e[j][j] # Zero /\ \A l \in 1..(j - 1) : P.e[l][l] = Zero

UnitColumn(P, c) ==
  Mat(1, P.nr, LAMBDA i, j : Div(P.e[j][c], RSqrt(P.e[c][c])))

UnitVector(P) == UnitColumn(P, FirstOnDiagonal(P))

EigVec(A, lam) == UnitVector(Projector(A, lam, Eigs(A) \ {lam}))

\* line 138: eig_vecs[:, idx_middle]
MiddleVector(Ck, eig_vals) ==
  EigVec(Ck, eig_vals[MiddleLoop(eig_vals, 0, -1) + 1])

\* line 140: every row of Wk receives the row max_ori . Wk
Spread(Wk, row) == Mat(Wk.nr, Wk.nc, LAMBDA i, j : row.e[1][j])

\* lines 140-141
Along(Wk, Ck, max_ori) ==
  [Wk |-> Spread(Wk, Dot(max_ori, Wk)),
   Ck |-> Dot(max_ori, Dot(Ck, Transpose(max_ori)))]

\* lines 126-141: the filter block and the coupling along the eigenvector
\* of the middle eigenvalue
MaxPowerReduce(Wk, Ck) == Along(Wk, Ck, MiddleVector(Ck, EighVals(Ck)))

(***************************************************************************)
(* Lines 144-164: reduction, power and noise normalization.                *)
(***************************************************************************)
\* line 146
FreeReduce(Wk, Ck) == Dot(pinv(Ck, Rat(1, 10)), Wk)

\* line 149
FixedReduce(Wk, Ck) == Mat(Wk.nr, Wk.nc, LAMBDA i, j : Div(Wk.e[i][j], Ck.e[1][1]))

\* mutant: the data CSD is left out of the quadratic form
SourcePower_noCsd(Wk, Cm) == Trace(Dot(Wk, Transpose(Wk)))

\* lines 152-153; conj() and real_if_close() act trivially on real entries
SourcePower(Wk, Cm) == Trace(Dot(Wk, Dot(Cm, Transpose(Wk))))

\* mutant: Wk is a copy, W keeps the rows it was built with
WriteBlock_copy(W, k, n_orient, Wk) == W

\* Wk is a view of W: assigning to Wk[:] writes rows of W
WriteBlock(W, k, n_orient, Wk) ==
  Mat(W.nr, W.nc,
      LAMBDA i, j : IF i \in (n_orient * k + 1)..(n_orient * k + n_orient)
                      THEN Wk.e[i - n_orient * k][j]
                      ELSE W.e[i][j])

\* lines 144-149 on the block [Wk, Ck] with the orientation flag free
Reduce(b, free) ==
  [Wk |-> IF free THEN FreeReduce(b.Wk, b.Ck) ELSE FixedReduce(b.Wk, b.Ck),
   Ck |-> b.Ck,
   is_free_ori |-> free]

\* lines 125-149: 'max-power' reduces the block and clears is_free_ori
Oriented(Wk, Ck, pick_ori, is_free_ori) ==
  IF pick_ori = "max-power" THEN Reduce(MaxPowerReduce(Wk, Ck), FALSE)
  ELSE Reduce([Wk |-> Wk, Ck |-> Ck], is_free_ori)

\* lines 140-153: what the pass leaves behind
Pass(W, Cm, k, n_orient, b) ==
  [W |-> WriteBlock(W, k, n_orient, b.Wk),
   Ck |-> b.Ck,
   is_free_ori |-> b.is_free_ori,
   power |-> SourcePower(b.Wk, Cm)]

\* lines 118-153: one pass of the loop over the sources
Iteration(W, G, Cm, k, n_orient, pick_ori, is_free_ori) ==
  Pass(W, Cm, k, n_orient,
       Oriented(BlockW(W, k, n_orient), Coupling(W, G, k, n_orient),
                pick_ori, is_free_ori))

\* line 157: the squared norm of every row of W
RowNorms(W) ==
  [i \in 1..W.nr |-> SumSeq([j \in 1..W.nc |-> Mul(W.e[i][j], W.e[i][j])])]

\* line 160: np.sum(np.reshape(x, (-1, 3)), axis=1)
SumTriples(x) ==
  [s \in 1..(Len(x) \div 3) |->
     Add(Add(x[3 * s - 2], x[3 * s - 1]), x[3 * s])]

\* lines 157-160: the squares of the normalization factors
NoiseNormSq(W, is_free_ori) ==
  IF is_free_ori THEN SumTriples(RowNorms(W)) ELSE RowNorms(W)

\* line 164: p / sqrt(q), the root kept symbolic as [num |-> p, den2 |-> q]
Normalized(source_power, noise_norm_sq) ==
  [s \in 1..Len(source_power) |->
     [num |-> source_power[s], den2 |-> noise_norm_sq[s]]]

\* the square of p / sqrt(q)
ValueSq(x) == Div(Mul(x.num, x.num), x.den2)

(***************************************************************************)
(* The calls the model explores.                                           *)
(***************************************************************************)
Subsequences(n) == {SortedSeq(S) : S \in SUBSET (0..(n - 1))}

Labels(n) ==
  {[given |-> FALSE, src_sel |-> << >>, vertno |-> << >>]}
  \cup {[given |-> TRUE, src_sel |-> sel, vertno |-> sel] : sel \in Subsequences(n)}

\* gain blocks of one source over two channels, as rows
FixedBlocks == {<<<<1>>, <<1>>>>, <<<<1>>, <<0>>>>, <<<<0>>, <<1>>>>}
FreeBlocks ==
  {<<<<1, 0, 0>>, <<0, 1, 0>>>>,
   <<<<1, 1, 0>>, <<0, 1, 1>>>>,
   <<<<1, 0, 1>>, <<0, 0, 0>>>>}

\* the gain of n sources whose blocks alternate between b1 and b2
Gain(n, d, b1, b2) ==
  Mat(2, n * d,
      LAMBDA i, j : LET s == (j - 1) \div d
                        c == ((j - 1) % d) + 1
                    IN Rat((IF s % 2 = 0 THEN b1 ELSE b2)[i][c], 1))

Forwards(oris, surfs, types, fixed, free) ==
  UNION {
    LET blocks == IF o = "free" THEN free ELSE fixed
    IN {[source_ori |-> o, surf_ori |-> su, src_type |-> ty, nsource |-> n,
         sol |-> Gain(n, IF o = "free" THEN 3 ELSE 1, b1, b2)] :
          su \in surfs, ty \in types, n \in 1..MaxSources,
          b1 \in blocks, b2 \in blocks}
    : o \in oris}

CsdTwo ==
  {IntMat(<<<<2, 0>>, <<0, 2>>>>, 2),
   IntMat(<<<<2, 1>>, <<1, 2>>>>, 2),
   IntMat(<<<<1, 1>>, <<1, 1>>>>, 2)}

CsdOne == {IntMat(<<<<2>>>>, 1)}

Infos(chss, badss, projss) ==
  {[chs |-> c, bads |-> b, projs |-> pr] : c \in chss, b \in badss, pr \in projss}

Calls(entries, regs, picks, ns, gens, fwds, infos, csds, Lab(_)) ==
  UNION {
    {[entry |-> en, reg |-> r, pick_ori |-> po, epochs_n |-> n,
      return_generator |-> g, forward |-> f, info |-> inf, label |-> l,
      data_csd |-> c] :
       en \in entries, r \in regs, po \in picks, n \in ns, g \in gens,
       inf \in infos, c \in csds, l \in Lab(f.nsource)}
    : f \in fwds}

NoLabel(n) == {l \in Labels(n) : ~l.given}
EndLabel(n) == {l \in Labels(n) : ~l.given \/ l.src_sel = <<n - 1>>}

PlainInfo == Infos({<<"meg", "meg">>}, {{}}, {<< >>})
PlainCsd == {IntMat(<<<<2, 0>>, <<0, 2>>>>, 2)}
PlainFixed == {<<<<1>>, <<1>>>>}
PlainFree == {<<<<1, 0, 0>>, <<0, 1, 0>>>>}

\* calls that vary the orientation request and the forward model's flags
OptionCalls ==
  LET fwds == Forwards({"free", "fixed"}, BOOLEAN, {"surf", "vol"},
                       PlainFixed, PlainFree)
  IN Calls({"dics_epochs"}, {Rat(1, 100)}, {"None", "normal", "max-power"},
           {1}, {FALSE}, fwds, PlainInfo, PlainCsd, NoLabel)
     \cup Calls({"_apply_dics"}, {Rat(1, 10)}, {"None", "normal", "max-power"},
                {1}, {FALSE}, fwds, PlainInfo, PlainCsd, NoLabel)

\* calls of dics_epochs that vary the trials and its own options
EpochCalls ==
  LET fwds == Forwards({"free", "fixed"}, {TRUE}, {"surf"}, PlainFixed, PlainFree)
  IN Calls({"dics_epochs"}, {Rat(1, 100), Rat(1, 2)}, {"None"}, 1..MaxEpochs,
           BOOLEAN, fwds, PlainInfo, CsdTwo, NoLabel)

\* calls that vary the channels, the size of the CSD and the label
ChannelCalls ==
  LET fwds == Forwards({"free", "fixed"}, {TRUE}, {"surf"}, PlainFixed, PlainFree)
      infos == Infos({<<"meg", "meg">>, <<"meg", "eeg">>}, {{}}, {<< >>})
                 \cup Infos({<<"meg", "meg">>}, {{2}}, {<< >>})
  IN Calls({"dics_epochs"}, {Rat(1, 100)}, {"None"}, {1}, {FALSE},
           fwds, infos, PlainCsd \cup CsdOne, Labels)
     \cup Calls({"_apply_dics"}, {Rat(1, 10)}, {"None"}, {1}, {FALSE},
                fwds, infos, PlainCsd \cup CsdOne, Labels)

\* calls that vary the matrices
NumericCalls ==
  LET fwds == Forwards({"free", "fixed"}, {TRUE}, {"surf"},
                       FixedBlocks, FreeBlocks)
      infos == Infos({<<"meg", "meg">>}, {{}}, {<< >>, <<<<1, 0>>>>})
  IN Calls({"dics_epochs"}, {Rat(1, 100)}, {"None"}, {1}, {FALSE},
           fwds, infos, CsdTwo, EndLabel)
     \cup Calls({"_apply_dics"}, {Zero, Rat(1, 10), Rat(1, 2)}, {"None"},
                {1}, {FALSE}, fwds, infos, CsdTwo, EndLabel)

\* the regularization _apply_dics receives: line 222 passes the literal 0.1
PassedReg(call) == IF call.entry = "dics_epochs" THEN Rat(1, 10) ELSE call.reg

\* the matrices the exact arithmetic inverts: a rational spectrum with no
\* singular value on the cutoff and, for a zero cutoff, none equal to zero
Invertible(A, cond) ==
  /\ RationalSpectrum(A)
  /\ OffCutoff(A, cond)
  /\ cond = Zero => Det(A) # Zero

CouplingsInvertible(G0, W0, d) ==
  \A s \in 0..(SourceCount(G0, d) - 1) :
    Invertible(Coupling(W0, G0, s, d), Rat(1, 10))

FilterInvertible(G0, Cm, r, free) ==
  (free /\ CanDot(Transpose(G0), Cm)) =>
    CouplingsInvertible(G0, Dot(Transpose(G0), pinv(Cm, r)), 3)

\* the calls whose every pseudo-inverse the exact arithmetic represents, the
\* data CSD being positive semi-definite
Representable(call) ==
  /\ Invertible(call.data_csd, PassedReg(call))
  /\ IsPSD(call.data_csd)
  /\ FilterInvertible(ProjectedGain(call.forward, call.info, call.label,
                                    call.forward.source_ori = FIFFV_MNE_FREE_ORI),
                      call.data_csd, PassedReg(call),
                      call.forward.source_ori = FIFFV_MNE_FREE_ORI)

AllCalls ==
  {c \in OptionCalls \cup EpochCalls \cup ChannelCalls \cup NumericCalls :
     Representable(c)}

(***************************************************************************)
(* The state: the call, the position in it and the locals of _apply_dics   *)
(* and dics_epochs.  eig_vals, i and idx_middle are the locals of the loop *)
(* of lines 132-134.                                                       *)
(***************************************************************************)
VARIABLES args, pc, data, reg, pick_ori, is_free_ori, vertno, G, Cm_inv, W,
          n_orient, n_sources, k, Ck, source_power, noise_norm, stcs, error,
          eig_vals, i, idx_middle

vars == <<args, pc, data, reg, pick_ori, is_free_ori, vertno, G, Cm_inv, W,
          n_orient, n_sources, k, Ck, source_power, noise_norm, stcs, error,
          eig_vals, i, idx_middle>>

middle == <<eig_vals, i, idx_middle>>

NoMat == ZeroMat(0, 0)
NoCall == [entry |-> "none"]

Unset ==
  /\ data = 0
  /\ reg = Zero
  /\ pick_ori = "None"
  /\ is_free_ori = FALSE
  /\ vertno = << >>
  /\ G = NoMat
  /\ Cm_inv = NoMat
  /\ W = NoMat
  /\ n_orient = 0
  /\ n_sources = 0
  /\ k = 0
  /\ Ck = NoMat
  /\ source_power = << >>
  /\ noise_norm = << >>
  /\ stcs = [kind |-> "none", items |-> << >>]
  /\ error = "none"

Init ==
  /\ args \in AllCalls
  /\ pc = "start"
  /\ Unset
  /\ eig_vals = << >>
  /\ i = 0
  /\ idx_middle = -1

\* lines 215-223: dics_epochs reads the epochs and calls _apply_dics
DicsEpochs ==
  /\ pc = "start"
  /\ args.entry = "dics_epochs"
  /\ data' = args.epochs_n
  /\ reg' = Rat(1, 10)
  /\ pick_ori' = args.pick_ori
  /\ pc' = "entered"
  /\ UNCHANGED <<args, is_free_ori, vertno, G, Cm_inv, W, n_orient, n_sources,
                 k, Ck, source_power, noise_norm, stcs, error, middle>>

\* _apply_dics called by itself
ApplyDics ==
  /\ pc = "start"
  /\ args.entry = "_apply_dics"
  /\ data' = args.epochs_n
  /\ reg' = args.reg
  /\ pick_ori' = args.pick_ori
  /\ pc' = "entered"
  /\ UNCHANGED <<args, is_free_ori, vertno, G, Cm_inv, W, n_orient, n_sources,
                 k, Ck, source_power, noise_norm, stcs, error, middle>>

\* lines 65-80
Validate ==
  /\ pc = "entered"
  /\ pick_ori' = OverridePickOri(pick_ori)
  /\ is_free_ori' = (args.forward.source_ori = FIFFV_MNE_FREE_ORI)
  /\ \E msg \in {CheckPickOri(pick_ori', is_free_ori', args.forward)} :
       IF msg = "ok"
         THEN pc' = "restrict" /\ error' = error
         ELSE pc' = "raised" /\ error' = msg
  /\ UNCHANGED <<args, data, reg, vertno, G, Cm_inv, W, n_orient, n_sources,
                 k, Ck, source_power, noise_norm, stcs, middle>>

\* lines 82-105
Restrict ==
  /\ pc = "restrict"
  /\ vertno' = Vertno(args.forward, args.label)
  /\ G' = ProjectedGain(args.forward, args.info, args.label, is_free_ori)
  /\ pc' = "invert"
  /\ UNCHANGED <<args, data, reg, pick_ori, is_free_ori, Cm_inv, W, n_orient,
                 n_sources, k, Ck, source_power, noise_norm, stcs, error,
                 middle>>

\* lines 107-110
Invert ==
  /\ pc = "invert"
  /\ Cm_inv' = pinv(args.data_csd, reg)
  /\ pc' = "filter"
  /\ UNCHANGED <<args, data, reg, pick_ori, is_free_ori, vertno, G, W,
                 n_orient, n_sources, k, Ck, source_power, noise_norm, stcs,
                 error, middle>>

\* lines 113-116; np.dot raises ValueError on shapes that are not aligned
BuildFilter ==
  /\ pc = "filter"
  /\ IF CanDot(Transpose(G), Cm_inv)
       THEN /\ W' = Dot(Transpose(G), Cm_inv)
            /\ n_orient' = OrientDim(is_free_ori)
            /\ n_sources' = SourceCount(G, n_orient')
            /\ source_power' = [s \in 1..n_sources' |-> [num |-> Zero, den2 |-> One]]
            /\ pc' = "loop"
            /\ error' = error
       ELSE /\ pc' = "raised"
            /\ error' = "shapes not aligned"
            /\ UNCHANGED <<W, n_orient, n_sources, source_power>>
  /\ UNCHANGED <<args, data, reg, pick_ori, is_free_ori, vertno, G, Cm_inv,
                 k, Ck, noise_norm, stcs, middle>>

\* lines 117-153: the pass for source k
LoopPass ==
  /\ pc = "loop"
  /\ k < n_sources
  /\ \E it \in {Iteration(W, G, args.data_csd, k, n_orient, pick_ori, is_free_ori)} :
       /\ W' = it.W
       /\ Ck' = it.Ck
       /\ is_free_ori' = it.is_free_ori
       /\ source_power' = [source_power EXCEPT ![k + 1].num = it.power]
  /\ k' = k + 1
  /\ UNCHANGED <<args, pc, data, reg, pick_ori, vertno, G, Cm_inv, n_orient,
                 n_sources, noise_norm, stcs, error, middle>>

\* lines 155-166; the in-place division raises ValueError when noise_norm
\* cannot be broadcast onto source_power
Normalize ==
  /\ pc = "loop"
  /\ k = n_sources
  /\ noise_norm' = NoiseNormSq(W, is_free_ori)
  /\ IF Len(noise_norm') = n_sources
       THEN /\ source_power' = Normalized([s \in 1..n_sources |-> source_power[s].num],
                                          noise_norm')
            /\ stcs' = [kind |-> "ndarray", items |-> source_power']
            /\ pc' = IF args.entry = "dics_epochs" THEN "collect" ELSE "done"
            /\ error' = error
       ELSE /\ pc' = "raised"
            /\ error' = "operands could not be broadcast"
            /\ UNCHANGED <<source_power, stcs>>
  /\ UNCHANGED <<args, data, reg, pick_ori, is_free_ori, vertno, G, Cm_inv, W,
                 n_orient, n_sources, k, Ck, middle>>

\* lines 225-228
Collect ==
  /\ pc = "collect"
  /\ stcs' = IF ~args.return_generator
               THEN [kind |-> "list", items |-> stcs.items]
               ELSE stcs
  /\ pc' = "done"
  /\ UNCHANGED <<args, data, reg, pick_ori, is_free_ori, vertno, G, Cm_inv, W,
                 n_orient, n_sources, k, Ck, source_power, noise_norm, error,
                 middle>>

Next ==
  \/ DicsEpochs
  \/ ApplyDics
  \/ Validate
  \/ Restrict
  \/ Invert
  \/ BuildFilter
  \/ LoopPass
  \/ Normalize
  \/ Collect

Spec == Init /\ [][Next]_vars

(***************************************************************************)
(* The loop of lines 132-134 on its own, over every triple of eigenvalues. *)
(***************************************************************************)
Triples == {<<Rat(a, 1), Rat(b, 1), Rat(c, 1)>> : a, b, c \in 1..MaxEig}

InitMiddle ==
  /\ args = NoCall
  /\ pc = "middle"
  /\ Unset
  /\ eig_vals \in Triples
  /\ i = 0
  /\ idx_middle = -1

\* lines 133-134: one pass, idx_middle = -1 standing for the unbound name
MiddlePass ==
  /\ pc = "middle"
  /\ i < 3
  /\ idx_middle' = MiddleStep(eig_vals, i, idx_middle)
  /\ i' = i + 1
  /\ UNCHANGED <<args, pc, data, reg, pick_ori, is_free_ori, vertno, G, Cm_inv,
                 W, n_orient, n_sources, k, Ck, source_power, noise_norm, stcs,
                 error, eig_vals>>

\* line 138: reading idx_middle raises UnboundLocalError if it was never bound
MiddlePick ==
  /\ pc = "middle"
  /\ i = 3
  /\ IF idx_middle = -1
       THEN pc' = "raised" /\ error' = "idx_middle unbound"
       ELSE pc' = "picked" /\ error' = error
  /\ UNCHANGED <<args, data, reg, pick_ori, is_free_ori, vertno, G, Cm_inv, W,
                 n_orient, n_sources, k, Ck, source_power, noise_norm, stcs,
                 middle>>

NextMiddle == MiddlePass \/ MiddlePick

SpecMiddle == InitMiddle /\ [][NextMiddle]_vars

(***************************************************************************)
(* The claims.                                                             *)
(***************************************************************************)
Returned == pc \in {"collect", "done"}
Computing == pc \in {"restrict", "invert", "filter", "loop", "collect", "done"}
OrientFree == args.forward.source_ori = FIFFV_MNE_FREE_ORI

\* the caller's pick_ori cannot be served by the forward model
Incompatible(call) ==
  \/ call.pick_ori \in {"normal", "max-power"} /\ call.forward.source_ori # "free"
  \/ call.pick_ori = "normal" /\ ~call.forward.surf_ori
  \/ call.pick_ori = "normal" /\ call.forward.src_type # "surf"

\* C1: a call whose pick_ori ('normal' or 'max-power') the forward model
\* cannot serve fails with a ValueError of the validation, and never reaches
\* a step that computes with matrices.
C1_IncompatibleRequestFails ==
  (args.entry # "none" /\ Incompatible(args)) =>
    /\ ~Computing
    /\ pc = "raised" => error \in {"free orientation required",
                                   "surface coordinates required",
                                   "surface source space required"}

\* the filter as line 113 builds it
BuiltFilter == Dot(Transpose(G), Cm_inv)

\* C2 as stated: every noise_norm[k] is computed from the rows of the filter
\* W = G^T pinv(DataCSD, reg) as built before the loop over the sources.
C2_NormFromBuiltFilter ==
  Returned => noise_norm = NoiseNormSq(BuiltFilter, is_free_ori)

\* the summed squared row norms of block s of Wb after its reduction
ReducedNormSq(Wb, s) ==
  SumSeq(RowNorms(Oriented(BlockW(Wb, s, n_orient), Coupling(Wb, G, s, n_orient),
                           pick_ori, OrientFree).Wk))

\* C2 amended: every noise_norm[k] is the root of the summed squared norms
\* of the rows of location k as the loop left them in W, that is of the
\* block of the built filter reduced by its own coupling (divided by Ck for
\* fixed orientation, multiplied by pinv(Ck, 0.1) for free orientation).
C2_NormFromReducedFilter ==
  Returned =>
    \A s \in 0..(n_sources - 1) : noise_norm[s + 1] = ReducedNormSq(BuiltFilter, s)

C2_Witness ==
  /\ pc = "done"
  /\ OrientFree
  /\ n_sources = 2
  /\ \A s \in 1..2 : IsFinite(noise_norm[s])
  /\ noise_norm # NoiseNormSq(BuiltFilter, is_free_ori)

\* C3: dics_epochs over N trials returns N estimates, one per trial, and a
\* lazy sequence when return_generator is set.
C3_OneEstimatePerTrial ==
  (pc = "done" /\ args.entry = "dics_epochs") =>
    /\ Len(stcs.items) = args.epochs_n
    /\ args.return_generator => stcs.kind = "generator"

\* the scenario of C4: 2 channels, 1 source of fixed orientation,
\* G = [[1], [1]], DataCSD = [[2, 0], [0, 2]], reg = 0, no projector, no label
Scenario ==
  /\ args.entry = "_apply_dics"
  /\ args.reg = Zero
  /\ args.forward.source_ori = "fixed"
  /\ args.forward.sol = IntMat(<<<<1>>, <<1>>>>, 1)
  /\ args.info = [chs |-> <<"meg", "meg">>, bads |-> {}, projs |-> << >>]
  /\ ~args.label.given
  /\ args.data_csd = IntMat(<<<<2, 0>>, <<0, 2>>>>, 2)
  /\ pc = "done"

ScenarioFilter ==
  /\ Cm_inv = Scale(Rat(1, 2), Eye(2))
  /\ BuiltFilter = Mat(1, 2, LAMBDA r, c : Rat(1, 2))
  /\ noise_norm = <<Rat(1, 2)>>

\* C4 as stated: the scenario yields Cm_inv = I / 2, W = [1/2, 1/2],
\* Ck = 1/2, power 2 before normalization, noise_norm^2 = 1/2 and a final
\* power whose square is 8.
C4_ScenarioAsStated ==
  Scenario =>
    /\ ScenarioFilter
    /\ Ck.e[1][1] = Rat(1, 2)
    /\ source_power[1].num = Rat(2, 1)
    /\ ValueSq(stcs.items[1]) = Rat(8, 1)

\* C4 amended: the scenario yields Cm_inv = I / 2, W = [1/2, 1/2], Ck = 1,
\* power 1 before normalization, noise_norm^2 = 1/2 and a final power whose
\* square is 2 (about 1.414).
C4_ScenarioComputed ==
  Scenario =>
    /\ ScenarioFilter
    /\ Ck.e[1][1] = One
    /\ source_power[1].num = One
    /\ ValueSq(stcs.items[1]) = Rat(2, 1)

C4_Witness == Scenario /\ Len(stcs.items) = 1

\* C5: the reg given to dics_epochs is the cutoff of the pseudo-inverse of
\* the data CSD.
C5_CallersRegIsCutoff ==
  (pc = "filter" /\ args.entry = "dics_epochs") =>
    /\ reg = args.reg
    /\ Cm_inv = pinv(args.data_csd, args.reg)

\* C6: a label that selects no source makes the call fail; it never returns
\* an empty estimate.
C6_EmptyLabelFails ==
  (args.entry # "none" /\ args.label.given /\ args.label.src_sel = << >>) =>
    /\ pc # "done"
    /\ pc = "done" => Len(stcs.items) > 0

\* the restricted gain and the data CSD disagree on the number of channels
Mismatch == G # NoMat /\ G.nr # args.data_csd.nr

\* C7 as stated: a mismatch between the rows of the restricted gain and the
\* dimension of the data CSD is caught right after the restriction, before
\* the pseudo-inverse is computed.
C7_MismatchCaughtBeforeInverse ==
  Mismatch => pc = "raised" /\ Cm_inv = NoMat

\* C7 amended: a mismatch makes the call fail, at the product
\* W = G^T Cm_inv, after the pseudo-inverse of the data CSD was computed;
\* no other call fails there, and in every run that gets past the product
\* the gain has as many rows as the data CSD.
C7_MismatchFailsAtProduct ==
  /\ Mismatch =>
       /\ pc \in {"invert", "filter", "raised"}
       /\ pc = "raised" =>
            error = "shapes not aligned" /\ Cm_inv = pinv(args.data_csd, reg)
  /\ error = "shapes not aligned" => Mismatch
  /\ pc \in {"loop", "collect", "done"} => G.nr = args.data_csd.nr

C7_Witness ==
  pc = "raised" /\ error = "shapes not aligned" /\ Mismatch /\ Cm_inv # NoMat

\* C8: with a positive semi-definite data CSD every power computed by the
\* loop is >= 0, and so is every normalized power whose noise_norm is > 0.
C8_PowerNonNegative ==
  pc \in {"loop", "collect", "done"} =>
    \A s \in 1..k :
      /\ Geq(source_power[s].num, Zero)
      /\ (Returned /\ Gt(source_power[s].den2, Zero)) =>
           Geq(Div(source_power[s].num, source_power[s].den2), Zero)

\* the median of three values
Median(v) ==
  CHOOSE m \in {v[1], v[2], v[3]} :
    /\ Cardinality({q \in 1..3 : Geq(m, v[q])}) >= 2
    /\ Cardinality({q \in 1..3 : Geq(v[q], m)}) >= 2

\* C9: for every triple of eigenvalues, ties included, the loop binds
\* idx_middle to an index that is neither argmax nor argmin and that holds
\* the median; the eigenvalues (5, 1, 3) select index 2, the eigenvalue 3.
C9_MiddleIsMedian ==
  /\ pc = "middle" => error = "none"
  /\ ~(pc = "raised" /\ error = "idx_middle unbound")
  /\ pc = "picked" =>
       /\ idx_middle \in 0..2
       /\ idx_middle # ArgMax(eig_vals)
       /\ idx_middle # ArgMin(eig_vals)
       /\ eig_vals[idx_middle + 1] = Median(eig_vals)
       /\ eig_vals = <<Rat(5, 1), Rat(1, 1), Rat(3, 1)>> => idx_middle = 2

C9_Witness ==
  /\ pc = "picked"
  /\ eig_vals = <<Rat(5, 1), Rat(1, 1), Rat(3, 1)>>
  /\ eig_vals[idx_middle + 1] = Rat(3, 1)

\* the gain of every source on the picked channels, after the projection
WholeGain ==
  ProjectedGain(args.forward, args.info,
                [given |-> FALSE, src_sel |-> << >>, vertno |-> << >>], OrientFree)

\* column c (0-based) of the orientation block q (1-based) of G is column
\* 3 * src_sel[q] + c of the whole gain
BlockFromSelection(Gw, q, c) ==
  Cols(G, 3 * (q - 1) + c + 1, 3 * (q - 1) + c + 1)
    = Cols(Gw, 3 * args.label.src_sel[q] + c + 1, 3 * args.label.src_sel[q] + c + 1)

ExpandedInOrder(Gw) ==
  \A q \in 1..Len(args.label.src_sel) : \A c \in 0..2 : BlockFromSelection(Gw, q, c)

\* C10: with a label and free orientation, G holds for every selected
\* source s, in the order of the selection, the columns 3s, 3s + 1, 3s + 2
\* of the gain, 3 * |selection| columns in all; in every run the columns of
\* G are n_orient * n_sources, and the power and noise_norm vectors have
\* n_sources entries.
C10_LabelExpansion ==
  /\ (pc \in {"invert", "filter", "loop", "collect", "done"}
      /\ args.label.given /\ OrientFree) =>
       /\ G.nc = 3 * Len(args.label.src_sel)
       /\ ExpandedInOrder(WholeGain)
  /\ pc \in {"loop", "collect", "done"} =>
       /\ n_orient = (IF OrientFree THEN 3 ELSE 1)
       /\ G.nc = n_orient * n_sources
       /\ Len(source_power) = n_sources
  /\ Returned => Len(noise_norm) = n_sources /\ Len(stcs.items) = n_sources

C10_Witness ==
  /\ pc = "done"
  /\ OrientFree
  /\ args.forward.nsource = 2
  /\ args.label.given
  /\ args.label.src_sel = <<1>>
  /\ G.nc = 3
  /\ n_sources = 1

====
